---- MODULE Spec2Model ----
(***************************************************************************)
(* Model of structured_bindings.cpp: main() prints the input vector, calls *)
(* a lambda that computes the median of the vector together with the       *)
(* original positions of the one or two elements the median was computed   *)
(* from, binds the returned tuple to the const structured binding          *)
(* [median_value, indices], and prints the binding later on.               *)
(*                                                                         *)
(* Doubles are modelled as integers counting units of 0.05, so that the    *)
(* inputs (multiples of 0.1) and the mean of two of them are exact; the    *)
(* rounding of IEEE arithmetic is outside the model.  A double that may be *)
(* NaN is a record [nan, num].  C++ indices are kept 0-based; At reads a   *)
(* vector at a 0-based position.                                           *)
(*                                                                         *)
(* std::sort does not specify the relative order of elements that compare  *)
(* equivalent: the Sort step may produce any ordering of the range that is *)
(* sorted with respect to the comparator.  It is an algorithm over the     *)
(* range and the comparator only, so the same range is ordered the same    *)
(* way every time within one build (sortMemo).                             *)
(***************************************************************************)
EXTENDS Integers, Sequences, FiniteSets, TLC

VARIABLES
    elements,            \* main: const std::vector<double> elements
    pc,                  \* position in main / in the lambda
    out,                 \* what has been written to std::cout, one item per print
    result,              \* lambda: auto result
    size,                \* lambda: auto size
    enumeratedElements,  \* lambda: std::vector<std::pair<size_t,double>>
    index,               \* lambda: loop variable of the enumeration loop
    rankIndices,         \* lambda: std::vector<size_t> indices (positions in the sorted list)
    originalIndices,     \* lambda: std::vector<size_t> originalIndices
    values,              \* lambda: std::vector<double> values
    median_value,        \* main: first name of the const structured binding
    indices,             \* main: second name of the const structured binding
    sortMemo,            \* the order std::sort of this build gives each range it was given
    run,                 \* 1 for the program's run, 2 for a second run on a reordered input
    perm,                \* the reordering applied to the first run's input (second run only)
    prev                 \* input and result of the first run (second run only)

vars == <<elements, pc, out, result, size, enumeratedElements, index, rankIndices,
          originalIndices, values, median_value, indices, sortMemo, run, perm, prev>>

lambdaLocals == <<result, size, enumeratedElements, index, rankIndices,
                  originalIndices, values>>

harness == <<run, perm, prev>>

----------------------------------------------------------------------------
(* Bounds *)

MaxLen == 5

MaxRerunLen == 3

----------------------------------------------------------------------------
(* Doubles *)

Tenths(t) == 2 * t

Hundredths(h) == h \div 5

Num(x) == [nan |-> FALSE, num |-> x]

QuietNaN == [nan |-> TRUE, num |-> 0]

(* main's input vector { 1.2, 1.1, -0.1, -0.2, 0, 1 } *)
MainElements ==
    <<Tenths(12), Tenths(11), Tenths(-1), Tenths(-2), Tenths(0), Tenths(10)>>

(* the values other input vectors are built from: -0.1, 1 and 5 *)
Values == {Tenths(-1), Tenths(10), Tenths(50)}

SeqsUpTo(S, n) == UNION {[1..k -> S] : k \in 0..n}

Inputs == SeqsUpTo(Values, MaxLen) \cup {MainElements}

RerunInputs == SeqsUpTo(Values, MaxRerunLen) \cup {MainElements}

----------------------------------------------------------------------------
(* Vectors and pairs *)

At(vec, i) == vec[i + 1]

MakePair(i, v) == [first |-> i, second |-> v]

Perms(n) == Permutations(1..n)

RECURSIVE Sum(_)
Sum(vec) == IF vec = <<>> THEN 0 ELSE Head(vec) + Sum(Tail(vec))

(* the comparator with the elements' order inverted *)
CompAscending(a, b) == a.second < b.second

(* the comparator handed to std::sort *)
Comp(a, b) == a.second > b.second

IsSorted(vec) == \A i, j \in 1..Len(vec) : i < j => ~Comp(vec[j], vec[i])

Reorderings(vec) == {[i \in 1..Len(vec) |-> vec[p[i]]] : p \in Perms(Len(vec))}

(* a sort that leaves the range as it was *)
SortOutcomesIdentity(vec) == {vec}

(* a sort that only shuffles the range *)
SortOutcomesUnsorted(vec) == Reorderings(vec)

(* what std::sort may leave in the range: any reordering of it that is sorted *)
(* with respect to the comparator                                            *)
SortOutcomes(vec) == {s \in Reorderings(vec) : IsSorted(s)}

(* both middle positions or the single one, always as if the size were odd *)
RankIndicesSingle(n) == <<n \div 2>>

(* the two middle positions in the opposite order, one position too far for odd sizes *)
RankIndicesShifted(n) ==
    IF n % 2 = 0 THEN <<n \div 2, n \div 2 - 1>> ELSE <<(n \div 2 + 1) % n>>

(* the positions of the sorted list the median is computed from *)
RankIndices(n) ==
    IF n % 2 = 0 THEN <<n \div 2 - 1, n \div 2>> ELSE <<n \div 2>>

----------------------------------------------------------------------------
(* Initial state: main is about to run on some input vector *)

Init ==
    /\ elements \in Inputs
    /\ pc = "main"
    /\ out = <<>>
    /\ result = <<QuietNaN, <<>>>>
    /\ size = 0
    /\ enumeratedElements = <<>>
    /\ index = 0
    /\ rankIndices = <<>>
    /\ originalIndices = <<>>
    /\ values = <<>>
    /\ median_value = QuietNaN
    /\ indices = <<>>
    /\ sortMemo = <<>>
    /\ run = 1
    /\ perm = <<>>
    /\ prev = [elements |-> <<>>, median_value |-> QuietNaN, indices |-> <<>>]

----------------------------------------------------------------------------
(* main, before the lambda *)

PrintElements ==
    /\ pc = "main"
    /\ out' = Append(out, elements)
    /\ pc' = "call"
    /\ UNCHANGED <<elements, lambdaLocals, median_value, indices, sortMemo, harness>>

----------------------------------------------------------------------------
(* The lambda *)

(* a lambda that enters the block for every size *)
EnterUnguarded ==
    /\ pc = "call"
    /\ result' = <<QuietNaN, <<>>>>
    /\ size' = Len(elements)
    /\ pc' = "enumerate"
    /\ UNCHANGED <<elements, out, enumeratedElements, index, rankIndices,
                   originalIndices, values, median_value, indices, sortMemo, harness>>

(* result = (NaN, {}); size = elements.size(); if (size > 0) *)
Enter ==
    /\ pc = "call"
    /\ result' = <<QuietNaN, <<>>>>
    /\ size' = Len(elements)
    /\ pc' = IF size' > 0 THEN "enumerate" ELSE "return"
    /\ UNCHANGED <<elements, out, enumeratedElements, index, rankIndices,
                   originalIndices, values, median_value, indices, sortMemo, harness>>

(* one iteration of the enumeration loop *)
EmplaceBack ==
    /\ pc = "enumerate"
    /\ index < Len(elements)
    /\ enumeratedElements' = Append(enumeratedElements, MakePair(index, At(elements, index)))
    /\ index' = index + 1
    /\ UNCHANGED <<elements, pc, out, result, size, rankIndices, originalIndices, values,
                   median_value, indices, sortMemo, harness>>

(* the enumeration loop ends *)
EnumerateDone ==
    /\ pc = "enumerate"
    /\ ~(index < Len(elements))
    /\ pc' = "sort"
    /\ UNCHANGED <<elements, out, lambdaLocals, median_value, indices, sortMemo, harness>>

(* a sort whose order depends on something besides the range it is given *)
SortUnrepeatable ==
    /\ pc = "sort"
    /\ \E s \in SortOutcomes(enumeratedElements) :
          /\ enumeratedElements' = s
          /\ sortMemo' = (enumeratedElements :> s) @@ sortMemo
    /\ pc' = "ranks"
    /\ UNCHANGED <<elements, out, result, size, index, rankIndices, originalIndices, values,
                   median_value, indices, harness>>

(* std::sort(enumeratedElements.begin(), enumeratedElements.end(), comp) *)
Sort ==
    /\ pc = "sort"
    /\ \E s \in SortOutcomes(enumeratedElements) :
          /\ enumeratedElements \in DOMAIN sortMemo => s = sortMemo[enumeratedElements]
          /\ enumeratedElements' = s
          /\ sortMemo' = (enumeratedElements :> s) @@ sortMemo
    /\ pc' = "ranks"
    /\ UNCHANGED <<elements, out, result, size, index, rankIndices, originalIndices, values,
                   median_value, indices, harness>>

(* std::vector<size_t> indices = (size % 2 == 0) ? {size/2 - 1, size/2} : {size/2} *)
SelectRanks ==
    /\ pc = "ranks"
    /\ rankIndices' = RankIndices(size)
    /\ pc' = "disentangle"
    /\ UNCHANGED <<elements, out, result, size, enumeratedElements, index, originalIndices,
                   values, median_value, indices, sortMemo, harness>>

(* an iteration that keeps the position in the sorted list instead of .first *)
DisentangleSortedPosition ==
    /\ pc = "disentangle"
    /\ Len(originalIndices) < Len(rankIndices)
    /\ LET rank == rankIndices[Len(originalIndices) + 1]
       IN  /\ originalIndices' = Append(originalIndices, rank)
           /\ values' = Append(values, At(enumeratedElements, rank).second)
    /\ UNCHANGED <<elements, pc, out, result, size, enumeratedElements, index, rankIndices,
                   median_value, indices, sortMemo, harness>>

(* one iteration of: for (const auto& index : indices) *)
Disentangle ==
    /\ pc = "disentangle"
    /\ Len(originalIndices) < Len(rankIndices)
    /\ LET rank == rankIndices[Len(originalIndices) + 1]
       IN  /\ originalIndices' = Append(originalIndices, At(enumeratedElements, rank).first)
           /\ values' = Append(values, At(enumeratedElements, rank).second)
    /\ UNCHANGED <<elements, pc, out, result, size, enumeratedElements, index, rankIndices,
                   median_value, indices, sortMemo, harness>>

(* a result whose median is the sum of the selected values, never divided *)
MakeResultSum ==
    /\ pc = "disentangle"
    /\ ~(Len(originalIndices) < Len(rankIndices))
    /\ result' = <<Num(0 + Sum(values)), originalIndices>>
    /\ pc' = "return"
    /\ UNCHANGED <<elements, out, size, enumeratedElements, index, rankIndices,
                   originalIndices, values, median_value, indices, sortMemo, harness>>

(* median = accumulate(values, 0.0) / values.size(); result = (median, originalIndices) *)
MakeResult ==
    /\ pc = "disentangle"
    /\ ~(Len(originalIndices) < Len(rankIndices))
    /\ LET median == Num((0 + Sum(values)) \div Len(values))
       IN  result' = <<median, originalIndices>>
    /\ pc' = "return"
    /\ UNCHANGED <<elements, out, size, enumeratedElements, index, rankIndices,
                   originalIndices, values, median_value, indices, sortMemo, harness>>

(* return result; const auto [median_value, indices] = ... *)
Return ==
    /\ pc = "return"
    /\ median_value' = result[1]
    /\ indices' = result[2]
    /\ pc' = "long"
    /\ UNCHANGED <<elements, out, lambdaLocals, sortMemo, harness>>

----------------------------------------------------------------------------
(* main, after the binding *)

(* the code between the binding and its use, with the two assignments in it *)
LongCodeOverwrite ==
    /\ pc = "long"
    /\ median_value' = Num(Tenths(123))
    /\ indices' = <<100, 200>>
    /\ pc' = "more"
    /\ UNCHANGED <<elements, out, lambdaLocals, sortMemo, harness>>

(* "long code here": the assignments to the binding do not compile and are comments *)
LongCode ==
    /\ pc = "long"
    /\ pc' = "more"
    /\ UNCHANGED <<elements, out, lambdaLocals, median_value, indices, sortMemo, harness>>

(* "more code here" *)
MoreCode ==
    /\ pc = "more"
    /\ pc' = "print"
    /\ UNCHANGED <<elements, out, lambdaLocals, median_value, indices, sortMemo, harness>>

(* std::cout << median_value ... printVector(indices) *)
PrintResult ==
    /\ pc = "print"
    /\ out' = Append(out, <<median_value, indices>>)
    /\ pc' = "done"
    /\ UNCHANGED <<elements, lambdaLocals, median_value, indices, sortMemo, harness>>

----------------------------------------------------------------------------
(* A second run of the same build on a reordering of the first run's input: *)
(* the element at position i of the first input is at position p[i] of the  *)
(* second.  Everything but the build's sort is created afresh.              *)

Reordered(vec, p) == [j \in 1..Len(vec) |-> vec[CHOOSE i \in 1..Len(vec) : p[i] = j]]

Rerun ==
    /\ pc = "done"
    /\ run = 1
    /\ elements \in RerunInputs
    /\ \E p \in Perms(Len(elements)) :
          /\ perm' = p
          /\ elements' = Reordered(elements, p)
    /\ prev' = [elements |-> elements, median_value |-> median_value, indices |-> indices]
    /\ run' = 2
    /\ pc' = "main"
    /\ out' = <<>>
    /\ result' = <<QuietNaN, <<>>>>
    /\ size' = 0
    /\ enumeratedElements' = <<>>
    /\ index' = 0
    /\ rankIndices' = <<>>
    /\ originalIndices' = <<>>
    /\ values' = <<>>
    /\ median_value' = QuietNaN
    /\ indices' = <<>>
    /\ UNCHANGED sortMemo

----------------------------------------------------------------------------

Next ==
    \/ PrintElements
    \/ Enter
    \/ EmplaceBack
    \/ EnumerateDone
    \/ Sort
    \/ SelectRanks
    \/ Disentangle
    \/ MakeResult
    \/ Return
    \/ LongCode
    \/ MoreCode
    \/ PrintResult

Spec == Init /\ [][Next]_vars

NextRerun == Next \/ Rerun

SpecRerun == Init /\ [][NextRerun]_vars

----------------------------------------------------------------------------
(* Vocabulary of the properties *)

(* the structured binding exists *)
Bound == pc \in {"long", "more", "print", "done"}

(* the lambda is past std::sort, on the path that sorts *)
PastSort == pc \in {"ranks", "disentangle"} \/ (size > 0 /\ (pc = "return" \/ Bound))

N == Len(elements)

(* the working list as the enumeration loop builds it *)
Enumerated(vec) == [i \in 1..Len(vec) |-> MakePair(i - 1, vec[i])]

NonIncreasing(vec) == \A i, j \in 1..Len(vec) : i < j => vec[i].second >= vec[j].second

(* a and b hold the same pairs, each once *)
IsReorderingOf(a, b) ==
    /\ Len(a) = Len(b)
    /\ \A i, j \in 1..Len(a) : a[i] = a[j] => i = j
    /\ {a[i] : i \in 1..Len(a)} = {b[i] : i \in 1..Len(b)}

Distinct(vec) == \A i, j \in 1..Len(vec) : vec[i] = vec[j] => i = j

Occurrences(vec, v) == Cardinality({i \in 1..Len(vec) : vec[i] = v})

(* reference: the stable descending order, ties in input order, built by    *)
(* inserting each pair behind every pair whose value is not smaller         *)
RECURSIVE InsertStable(_, _)
InsertStable(s, x) ==
    IF s = <<>> THEN <<x>>
    ELSE IF Head(s).second >= x.second THEN <<Head(s)>> \o InsertStable(Tail(s), x)
    ELSE <<x>> \o s

RECURSIVE StableSorted(_)
StableSorted(pairs) ==
    IF pairs = <<>> THEN <<>>
    ELSE InsertStable(StableSorted(SubSeq(pairs, 1, Len(pairs) - 1)), pairs[Len(pairs)])

StableOrder(vec) == StableSorted(Enumerated(vec))

(* reference: the middle ranks, written out from the sentences of the specification *)
MiddleRanks(n) ==
    IF n = 0 THEN <<>> ELSE IF n % 2 = 1 THEN <<n \div 2>> ELSE <<n \div 2 - 1, n \div 2>>

StableIndices(vec) ==
    [k \in 1..Len(MiddleRanks(Len(vec))) |-> At(StableOrder(vec), MiddleRanks(Len(vec))[k]).first]

(* the value at each middle rank occurs once in the input *)
ContributorsUnique(vec) ==
    \A k \in 1..Len(MiddleRanks(Len(vec))) :
        Occurrences(vec, At(StableOrder(vec), MiddleRanks(Len(vec))[k]).second) = 1

----------------------------------------------------------------------------
(* C1 as stated: for main's input { 1.2, 1.1, -0.1, -0.2, 0, 1 } the result *)
(* is median 0.55 with indices [5, 1].                                      *)
C1_AsStated ==
    (elements = MainElements /\ Bound)
        => (median_value = Num(Hundredths(55)) /\ indices = <<5, 1>>)

(* C1 amended: for main's input { 1.2, 1.1, -0.1, -0.2, 0, 1 } the elements *)
(* at ranks 2 and 3 of the descending list are 1 (original index 5) and 0   *)
(* (original index 4): the result is median 0.5 with indices [5, 4].        *)
C1_MainResult ==
    (elements = MainElements /\ Bound)
        => /\ median_value = Num(Tenths(5))
           /\ indices = <<5, 4>>
           /\ At(enumeratedElements, 2) = MakePair(5, Tenths(10))
           /\ At(enumeratedElements, 3) = MakePair(4, Tenths(0))

C1_Witness ==
    /\ elements = MainElements
    /\ pc = "done"
    /\ out[Len(out)] = <<Num(Tenths(5)), <<5, 4>>>>

C3_IndicesIntoInput ==
    Bound =>
        /\ \A k \in 1..Len(indices) : 0 <= indices[k] /\ indices[k] < N
        /\ Distinct(indices)
        /\ indices # <<>> =>
              /\ ~median_value.nan
              /\ median_value.num * Len(indices)
                    = Sum([k \in 1..Len(indices) |-> At(elements, indices[k])])

(* the contributor sits at another position of the input than of the sorted list *)
C3_Witness ==
    /\ pc = "done"
    /\ N = 3
    /\ indices = <<2>>
    /\ At(elements, 2) # At(elements, 1)

(* C4: on an empty input the lambda skips the enumeration, the sort and the *)
(* rank selection, never gets stuck, and returns (NaN, {}).                 *)
C4_EmptyInput ==
    N = 0 =>
        /\ pc \notin {"enumerate", "sort", "ranks", "disentangle"}
        /\ enumeratedElements = <<>> /\ rankIndices = <<>> /\ sortMemo = <<>>
        /\ (pc = "return" \/ Bound) => result = <<QuietNaN, <<>>>>
        /\ Bound => (median_value = QuietNaN /\ indices = <<>>)
        /\ pc # "done" => ENABLED Next

C4_Witness == N = 0 /\ pc = "done" /\ out[Len(out)] = <<QuietNaN, <<>>>>

(* C5 as stated: the working list is in stable descending order, ties in    *)
(* the order of the input.                                                  *)
C5_AsStated == PastSort => enumeratedElements = StableOrder(elements)

(* C5 amended: the working list is a reordering of the enumerated input in  *)
(* non-increasing order of value, the order among equal values being left   *)
(* open; the returned indices are those of the stable descending order      *)
(* whenever each contributing value occurs once in the input.               *)
C5_SortedTiesOpen ==
    /\ PastSort =>
          /\ IsReorderingOf(enumeratedElements, Enumerated(elements))
          /\ NonIncreasing(enumeratedElements)
    /\ (Bound /\ ContributorsUnique(elements)) => indices = StableIndices(elements)

(* equal values left in the opposite of the input order, contributors unique *)
C5_Witness ==
    /\ pc = "done"
    /\ N = 5
    /\ ContributorsUnique(elements)
    /\ enumeratedElements # StableOrder(elements)
    /\ indices = StableIndices(elements)

(* the image under the reordering of the first run's indices *)
ImageOfPrevIndices == [k \in 1..Len(prev.indices) |-> perm[prev.indices[k] + 1] - 1]

(* C6: the run on a reordering of the input returns the same median value   *)
(* as the run on the input.                                                 *)
C6_MedianPermutationInvariant == (run = 2 /\ Bound) => median_value = prev.median_value

C6_Witness ==
    /\ run = 2
    /\ pc = "done"
    /\ N = 3
    /\ elements # prev.elements
    /\ indices # prev.indices
    /\ median_value = prev.median_value

(* C7 as stated: the indices returned for the reordered input are the       *)
(* images under the reordering of the indices returned for the input, also  *)
(* when the input has duplicate values.                                     *)
C7_AsStated == (run = 2 /\ Bound) => indices = ImageOfPrevIndices

(* C7 amended: the indices returned for the reordered input point at        *)
(* elements with the same values as the images of the indices returned for  *)
(* the input, and they are those images whenever each contributing value    *)
(* occurs once in the input.                                                *)
C7_IndicesRemapped ==
    (run = 2 /\ Bound) =>
        /\ Len(indices) = Len(prev.indices)
        /\ \A k \in 1..Len(indices) :
              At(elements, indices[k]) = At(prev.elements, prev.indices[k])
        /\ ContributorsUnique(prev.elements) => indices = ImageOfPrevIndices

C7_Witness ==
    /\ run = 2
    /\ pc = "done"
    /\ N = 3
    /\ ContributorsUnique(prev.elements)
    /\ indices # prev.indices
    /\ indices = ImageOfPrevIndices

C9_BindingKept ==
    /\ Bound => (median_value = result[1] /\ indices = result[2])
    /\ pc = "done" => out[Len(out)] = result

C9_Witness ==
    /\ pc = "done"
    /\ N = 2
    /\ Len(indices) = 2
    /\ out[Len(out)] = <<median_value, indices>>

====
